---- MODULE Spec2Model ----
(***************************************************************************)
(* A model of the drawing-review backend (backend/app): the fingerprint    *)
(* cache of cad_service.py with its concurrent callers, the processing     *)
(* entry points that run the render / recognize / review / report stages,  *)
(* the DWG -> DXF converter loop, the failover over review models and OCR  *)
(* engines, and the Celery jobs with the handlers that poll them.          *)
(***************************************************************************)
EXTENDS Integers, Sequences, FiniteSets, TLC

\* ------------------------------------------------------------------ bounds
\* Number of calls of the entry points (each call is one caller thread).
NumCalls == 2
\* The clock stops advancing past this value (seconds).
MaxTime == 302
\* The converter's behaviour is fixed for this many attempts ahead.
MaxConvInputs == 2
\* Pages of a submitted PDF.
MaxPages == 2
\* Number of status polls of a job.
MaxPolls == 3

\* ------------------------------------------------------- program constants
CACHE_EXPIRE_SECONDS == 300
max_retries == 1
\* self.max_retries of async_ai_review (review_tasks.py line 51).  The
\* decorator of line 15 passes retry_kwargs={"max_retries": 2}, an option that
\* Celery reads for autoretry_for only; the task sets neither autoretry_for
\* nor max_retries, so the attribute keeps Celery's default.
task_max_retries == 3

\* ------------------------------------------------------------------ inputs
Calls == 1..NumCalls
Contents == {"c1", "c2"}
CachedFns == {"render_cad_to_image", "process_dxf_service"}
UncachedFns == {"process_image_service", "process_pdf_service"}
Fns == CachedFns \cup UncachedFns
\* The clock advances in steps of half the TTL and half the TTL plus one, so
\* that an entry is seen at an age of exactly the TTL and at one second more.
TickSteps == {CACHE_EXPIRE_SECONDS \div 2, CACHE_EXPIRE_SECONDS \div 2 + 1}

VARIABLES
    file_process_cache, \* fingerprint -> cache entry (NoEntry when absent)
    now,                \* time.time()
    call,               \* per call: position, arguments, locals, outcome
    convIn,             \* the environment of one convert_dwg_to_dxf_from_path call
    convPc,             \* position of that call
    retry_count,        \* its local retry_count
    attempts,           \* number of subprocess.run invocations it made
    result,             \* its local `result` (Unbound until subprocess.run returns)
    convRet,            \* what it returned or raised
    settings,           \* the .env values read by app.core.config
    backend,            \* how each review model / OCR engine answers a request
    available_models,   \* AIService.available_models
    svcPc,              \* position of the AIService constructor
    aiCall,             \* one call of AIService.call_ai: argument, backends invoked, result
    ocrCall,            \* one call of OCRStrategyService.recognize, likewise
    job,                \* one Celery job: arguments, broker message, stored state and result
    polls,              \* what the status handlers answered for the job, in order
    request,            \* one HTTP submission: endpoint, upload, what it ran, its response
    ocrSvc,             \* one call of perform_ocr_service: engine outcome, result, caller's branch
    temp_files,         \* the intermediate files on disk: path -> what the file holds
    dxfRun              \* per concurrent run: arguments, position, the image it read

cacheVars == <<file_process_cache, now, call>>
convVars == <<convIn, convPc, retry_count, attempts, result, convRet>>
svcVars == <<settings, backend, available_models, svcPc, aiCall, ocrCall>>
jobVars == <<job, polls>>
extVars == <<request, ocrSvc, temp_files, dxfRun>>
vars == <<file_process_cache, now, call, convIn, convPc, retry_count, attempts, result, convRet,
          settings, backend, available_models, svcPc, aiCall, ocrCall, job, polls,
          request, ocrSvc, temp_files, dxfRun>>

\* ------------------------------------------------------------------ values
\* hashlib.md5(content).hexdigest(): distinct contents of the model have
\* distinct digests.
_get_file_hash(c) == IF c = "c1" THEN "md5_1" ELSE "md5_2"
Hashes == {_get_file_hash(c) : c \in Contents}

NoResult == [kind |-> "None", status |-> "-", of |-> "-", detail |-> "-"]
PngBytes(c) == [kind |-> "bytes", status |-> "-", of |-> c, detail |-> "png"]
Dict(status, c, detail) == [kind |-> "dict", status |-> status, of |-> c, detail |-> detail]

NoEntry == [status |-> "absent", result |-> NoResult, timestamp |-> 0]
Entry(status, res, t) == [status |-> status, result |-> res, timestamp |-> t]

NoRet == [kind |-> "none", value |-> NoResult, exc |-> "-"]
Return(v) == [kind |-> "return", value |-> v, exc |-> "-"]
Raise(e) == [kind |-> "raise", value |-> NoResult, exc |-> e]

IdleCall ==
    [pc |-> "idle", fn |-> "-", content |-> "-", stages |-> <<>>, results |-> <<>>, ret |-> NoRet]

\* ------------------------------------------------------------------- cache
\* _check_cache, line 101: the expiry test.
ExpiredBug(e, t) == t - e.timestamp >= CACHE_EXPIRE_SECONDS
Expired(e, t) == t - e.timestamp > CACHE_EXPIRE_SECONDS

\* _check_cache: <<the cache after the lookup, the value returned>>.
_check_cache(cache, h, t) ==
    IF cache[h] = NoEntry THEN <<cache, NoEntry>>
    ELSE IF Expired(cache[h], t) THEN <<[cache EXCEPT ![h] = NoEntry], NoEntry>>
    ELSE <<cache, cache[h]>>

\* _update_cache: the entry is replaced whatever it was.
_update_cache(cache, h, status, res, t) == [cache EXCEPT ![h] = Entry(status, res, t)]

\* The branch of render_cad_to_image / process_dxf_service on the lookup:
\* "return" the cached result, "raise" the in-flight error, or "run".
CacheBranchNoHit(cache_data) == "run"
CacheBranchNoInflight(cache_data) ==
    IF cache_data # NoEntry /\ cache_data.status = "success" THEN "return" ELSE "run"
CacheBranch(cache_data) ==
    IF cache_data # NoEntry
    THEN IF cache_data.status = "success" THEN "return"
         ELSE IF cache_data.status = "processing" THEN "raise"
         ELSE "run"
    ELSE "run"

\* ------------------------------------------------------------------- calls
\* A caller enters one of the entry points with some content.  Calls are
\* numbered in the order they start.
Invoke(t, f, c) ==
    /\ call[t].pc = "idle"
    /\ \A u \in Calls : u < t => call[u].pc # "idle"
    /\ call' = [call EXCEPT ![t] = [IdleCall EXCEPT !.pc = IF f \in CachedFns THEN "check" ELSE "run",
                                                    !.fn = f, !.content = c]]
    /\ UNCHANGED <<file_process_cache, now>>

\* Lines 397-406 and 452-460: the lookup and the branch on it.  A call of
\* _check_cache is one step; the branch reads only the value it returned.
CheckCache(t) ==
    /\ call[t].pc = "check"
    /\ LET h == _get_file_hash(call[t].content)
           r == _check_cache(file_process_cache, h, now)
           b == CacheBranch(r[2])
       IN /\ file_process_cache' = r[1]
          /\ call' = [call EXCEPT ![t] =
                 IF b = "return"
                 THEN [@ EXCEPT !.pc = "done", !.ret = Return(r[2].result)]
                 ELSE IF b = "raise"
                 THEN [@ EXCEPT !.pc = "done", !.ret = Raise("CADRenderError:processing")]
                 ELSE [@ EXCEPT !.pc = "mark"]]
    /\ UNCHANGED now

\* Lines 409 and 463: _update_cache(file_hash, "processing").
MarkProcessing(t) ==
    /\ call[t].pc = "mark"
    /\ file_process_cache' = _update_cache(file_process_cache, _get_file_hash(call[t].content),
                                           "processing", NoResult, now)
    /\ call' = [call EXCEPT ![t].pc = "run"]
    /\ UNCHANGED now

\* ------------------------------------------------------------------ stages
\* What one run of an entry point's body does, by the outcome of its stages:
\* the stages it invoked, how each of them ended ("success", "failed": it
\* returned a failure, "exception": it raised), the terminal cache write
\* ("none": no write), the value written, and what the call returns or raises.
Run(stages, results, write, stored, ret) ==
    [stages |-> stages, results |-> results, write |-> write, stored |-> stored, ret |-> ret]
\* Every stage but the last returned success.
EndsWith(n, last) == [i \in 1..n |-> IF i < n THEN "success" ELSE last]

\* render_cad_to_image, lines 411-448.  Every exception of the body, the
\* missing PNG included, is caught at line 445.
RenderOutcomes == {"save_exc", "png_exc", "png_missing", "ok"}
RenderResults(o) ==
    IF o = "ok" THEN EndsWith(2, "success")
    ELSE IF o = "save_exc" THEN EndsWith(1, "exception")
    ELSE IF o = "png_exc" THEN EndsWith(2, "exception")
    ELSE EndsWith(2, "failed")
RenderRunLeavesMark(o, c) ==
    IF o = "ok"
    THEN Run(<<"save_temp_file", "cad_to_png">>, RenderResults(o), "success", PngBytes(c),
             Return(PngBytes(c)))
    ELSE Run(IF o = "save_exc" THEN <<"save_temp_file">> ELSE <<"save_temp_file", "cad_to_png">>,
             RenderResults(o), "none", NoResult, Raise("CADRenderError"))
RenderRun(o, c) ==
    IF o = "ok"
    THEN Run(<<"save_temp_file", "cad_to_png">>, RenderResults(o), "success", PngBytes(c),
             Return(PngBytes(c)))
    ELSE Run(IF o = "save_exc" THEN <<"save_temp_file">> ELSE <<"save_temp_file", "cad_to_png">>,
             RenderResults(o), "failed", NoResult, Raise("CADRenderError"))

\* process_dxf_service, lines 469-505.
DxfOutcomes == {"save_exc", "png_exc", "png_missing", "ocr_failed", "ai_failed", "ok"}
DxfStages(o) ==
    IF o = "save_exc" THEN <<"save_temp_file">>
    ELSE IF o \in {"png_exc", "png_missing"} THEN <<"save_temp_file", "cad_to_png">>
    ELSE IF o = "ocr_failed" THEN <<"save_temp_file", "cad_to_png", "perform_ocr_service">>
    ELSE IF o = "ai_failed"
    THEN <<"save_temp_file", "cad_to_png", "perform_ocr_service", "ai_review_service">>
    ELSE <<"save_temp_file", "cad_to_png", "perform_ocr_service", "ai_review_service",
           "generate_report_service">>
DxfValueKeepsPartial(o, c) ==
    Dict(IF o = "ok" THEN "success" ELSE "failed", c, "ocr+ai_review+report")
DxfValue(o, c) ==
    IF o = "ok" THEN Dict("success", c, "ocr+ai_review+report")
    ELSE IF o \in {"save_exc", "png_exc"} THEN Dict("failed", c, "exception")
    ELSE IF o = "png_missing" THEN Dict("failed", c, "render_message")
    ELSE IF o = "ocr_failed" THEN Dict("failed", c, "ocr_result")
    ELSE Dict("failed", c, "ai_result")
DxfResults(o) ==
    EndsWith(Len(DxfStages(o)),
             IF o = "ok" THEN "success"
             ELSE IF o \in {"save_exc", "png_exc"} THEN "exception" ELSE "failed")
\* The results of stages a returned value holds: the success dicts of lines
\* 492-496 and 549-558 hold the recognition result, the review and the report;
\* the failure dicts hold an error and a message.
Carries(v) ==
    IF v.kind = "bytes" THEN {"png"}
    ELSE IF v.kind = "dict" /\ v.detail = "ocr+ai_review+report" THEN {"ocr", "ai_review", "report"}
    ELSE {}
DxfRun(o, c) ==
    Run(DxfStages(o), DxfResults(o), IF o = "ok" THEN "success" ELSE "failed", DxfValue(o, c),
        Return(DxfValue(o, c)))

\* process_image_service, lines 122-150: no cache.  ai_review_service gets
\* the structured_data dict itself and slices it (ai_service.py line 190),
\* which raises; the exception is caught at line 144.
ImageOutcomes == {"ocr_failed", "ocr_ok"}
ImageRun(o, c) ==
    IF o = "ocr_failed"
    THEN Run(<<"perform_ocr_service">>, EndsWith(1, "failed"), "none", NoResult,
             Return(Dict("failed", c, "ocr_result")))
    ELSE Run(<<"perform_ocr_service", "ai_review_service">>, EndsWith(2, "exception"), "none",
             NoResult, Return(Dict("failed", c, "exception")))

\* process_pdf_service, lines 513-564: no cache.  An outcome is "convert_exc",
\* or the recognition result of each page (none when the PDF has no page)
\* with the result of the review.
PageSeqs == UNION {[1..n -> BOOLEAN] : n \in 0..MaxPages}
PdfOutcomes ==
    {[kind |-> "convert_exc", pages |-> <<>>, ai |-> FALSE]}
      \cup {[kind |-> "pages", pages |-> p, ai |-> a] : p \in PageSeqs, a \in BOOLEAN}
PdfRun(o, c) ==
    LET ocrs == [i \in 1..Len(o.pages) |-> "perform_ocr_service"]
        good == {i \in 1..Len(o.pages) : o.pages[i]}
        pages == [i \in 1..Len(o.pages) |-> IF o.pages[i] THEN "success" ELSE "failed"]
    IN IF o.kind = "convert_exc"
       THEN Run(<<"convert_from_bytes">>, <<"exception">>, "none", NoResult,
                Return(Dict("failed", c, "exception")))
       ELSE IF Len(o.pages) = 0
       THEN Run(<<"convert_from_bytes">>, <<"failed">>, "none", NoResult,
                Return(Dict("failed", c, "no_pages")))
       ELSE IF good = {}
       THEN Run(<<"convert_from_bytes">> \o ocrs, <<"success">> \o pages, "none", NoResult,
                Return(Dict("failed", c, "all_pages_failed")))
       ELSE IF ~o.ai
       THEN Run(<<"convert_from_bytes">> \o ocrs \o <<"ai_review_service">>,
                <<"success">> \o pages \o <<"failed">>, "none", NoResult,
                Return(Dict("failed", c, "ai_result")))
       ELSE Run(<<"convert_from_bytes">> \o ocrs \o <<"ai_review_service", "generate_report_service">>,
                <<"success">> \o pages \o <<"success", "success">>,
                "none", NoResult, Return(Dict("success", c, "ocr+ai_review+report")))

\* The body of a call runs to its end: the stages, the terminal cache write
\* of the cached entry points, and the return or raise.
Finish(t, r) ==
    /\ file_process_cache' =
           IF r.write = "none" THEN file_process_cache
           ELSE _update_cache(file_process_cache, _get_file_hash(call[t].content),
                              r.write, r.stored, now)
    /\ call' = [call EXCEPT ![t] = [@ EXCEPT !.pc = "done", !.stages = r.stages,
                                               !.results = r.results, !.ret = r.ret]]
    /\ UNCHANGED now

RunRender(t) ==
    /\ call[t].pc = "run" /\ call[t].fn = "render_cad_to_image"
    /\ \E o \in RenderOutcomes : Finish(t, RenderRun(o, call[t].content))

RunDxf(t) ==
    /\ call[t].pc = "run" /\ call[t].fn = "process_dxf_service"
    /\ \E o \in DxfOutcomes : Finish(t, DxfRun(o, call[t].content))

RunImage(t) ==
    /\ call[t].pc = "run" /\ call[t].fn = "process_image_service"
    /\ \E o \in ImageOutcomes : Finish(t, ImageRun(o, call[t].content))

RunPdf(t) ==
    /\ call[t].pc = "run" /\ call[t].fn = "process_pdf_service"
    /\ \E o \in PdfOutcomes : Finish(t, PdfRun(o, call[t].content))

Tick(d) ==
    /\ now + d <= MaxTime
    /\ now' = now + d
    /\ UNCHANGED <<file_process_cache, call>>

Init ==
    /\ file_process_cache = [h \in Hashes |-> NoEntry]
    /\ now = 0
    /\ call = [t \in Calls |-> IdleCall]
    /\ convIn = <<>>
    /\ convPc = "off"
    /\ retry_count = 0
    /\ attempts = 0
    /\ result = <<>>
    /\ convRet = <<>>
    /\ settings = <<>>
    /\ backend = <<>>
    /\ available_models = <<>>
    /\ svcPc = "off"
    /\ aiCall = <<>>
    /\ ocrCall = <<>>
    /\ job = <<>>
    /\ polls = <<>>
    /\ request = <<>>
    /\ ocrSvc = <<>>
    /\ temp_files = <<>>
    /\ dxfRun = <<>>

Next ==
    \/ \E t \in Calls, f \in CachedFns, c \in Contents : Invoke(t, f, c) /\ UNCHANGED <<convVars, svcVars, jobVars, extVars>>
    \/ \E t \in Calls : CheckCache(t) /\ UNCHANGED <<convVars, svcVars, jobVars, extVars>>
    \/ \E t \in Calls : MarkProcessing(t) /\ UNCHANGED <<convVars, svcVars, jobVars, extVars>>
    \/ \E t \in Calls : RunRender(t) /\ UNCHANGED <<convVars, svcVars, jobVars, extVars>>
    \/ \E t \in Calls : RunDxf(t) /\ UNCHANGED <<convVars, svcVars, jobVars, extVars>>
    \/ \E d \in TickSteps : Tick(d) /\ UNCHANGED <<convVars, svcVars, jobVars, extVars>>

\* The fingerprint cache under concurrent callers of its two users.
Spec == Init /\ [][Next]_vars

\* Callers that come one after another: a call starts when no other is under way.
InvokeAlone(t, f, c) ==
    /\ \A u \in Calls : call[u].pc \in {"idle", "done"}
    /\ Invoke(t, f, c)

NextSeq ==
    \/ \E t \in Calls, f \in CachedFns, c \in Contents : InvokeAlone(t, f, c) /\ UNCHANGED <<convVars, svcVars, jobVars, extVars>>
    \/ \E t \in Calls : CheckCache(t) /\ UNCHANGED <<convVars, svcVars, jobVars, extVars>>
    \/ \E t \in Calls : MarkProcessing(t) /\ UNCHANGED <<convVars, svcVars, jobVars, extVars>>
    \/ \E t \in Calls : RunRender(t) /\ UNCHANGED <<convVars, svcVars, jobVars, extVars>>
    \/ \E t \in Calls : RunDxf(t) /\ UNCHANGED <<convVars, svcVars, jobVars, extVars>>
    \/ \E d \in TickSteps : Tick(d) /\ UNCHANGED <<convVars, svcVars, jobVars, extVars>>

\* The fingerprint cache under sequential callers.
SpecSeq == Init /\ [][NextSeq]_vars

NextEntry ==
    \/ \E t \in Calls, f \in Fns, c \in Contents : Invoke(t, f, c) /\ UNCHANGED <<convVars, svcVars, jobVars, extVars>>
    \/ \E t \in Calls : CheckCache(t) /\ UNCHANGED <<convVars, svcVars, jobVars, extVars>>
    \/ \E t \in Calls : MarkProcessing(t) /\ UNCHANGED <<convVars, svcVars, jobVars, extVars>>
    \/ \E t \in Calls : RunRender(t) /\ UNCHANGED <<convVars, svcVars, jobVars, extVars>>
    \/ \E t \in Calls : RunDxf(t) /\ UNCHANGED <<convVars, svcVars, jobVars, extVars>>
    \/ \E t \in Calls : RunImage(t) /\ UNCHANGED <<convVars, svcVars, jobVars, extVars>>
    \/ \E t \in Calls : RunPdf(t) /\ UNCHANGED <<convVars, svcVars, jobVars, extVars>>
    \/ \E d \in TickSteps : Tick(d) /\ UNCHANGED <<convVars, svcVars, jobVars, extVars>>

\* All four processing entry points of cad_service.py.
SpecEntry == Init /\ [][NextEntry]_vars

\* --------------------------------------------------------------- converter
\* What one execution of the ODA converter does (lines 281-300): whether
\* subprocess.run raised, its exit code, whether the output file exists
\* afterwards, and whether ezdxf.readfile parses it.
AttemptOutcomes ==
    {[exc |-> e, returncode |-> 0, exists |-> FALSE, valid |-> FALSE] :
        e \in {"TimeoutExpired", "Exception"}}
      \cup {[exc |-> "none", returncode |-> rc, exists |-> FALSE, valid |-> FALSE] : rc \in {0, 1}}
      \cup {[exc |-> "none", returncode |-> rc, exists |-> TRUE, valid |-> v] :
              rc \in {0, 1}, v \in BOOLEAN}
ConvInputs ==
    [dwgExists : BOOLEAN, converterExists : BOOLEAN, runs : [1..MaxConvInputs -> AttemptOutcomes]]

\* Line 298: the attempt produced an output to validate.
Produced(a) == a.returncode = 0 /\ a.exists
\* Lines 298-313: the attempt's output is accepted and returned.
AcceptedUnvalidated(a) == Produced(a)
Accepted(a) == Produced(a) /\ a.valid

Unbound == [bound |-> FALSE, from |-> 0]
Bound(i) == [bound |-> TRUE, from |-> i]
ConvRet(kind, exc, from, carries) == [kind |-> kind, exc |-> exc, from |-> from, carries |-> carries]
ConvNoRet == ConvRet("none", "-", 0, "-")

\* Lines 265-271: the checks before the loop.
ConvPrecheck ==
    /\ convPc = "start"
    /\ IF ~convIn.dwgExists \/ ~convIn.converterExists
       THEN convPc' = "done" /\ convRet' = ConvRet("raise", "FileNotFoundError", 0, "-")
       ELSE convPc' = "loop" /\ convRet' = convRet
    /\ retry_count' = 0
    /\ UNCHANGED <<convIn, attempts, result>>

\* Lines 272-321: one iteration of the while loop.
ConvAttempt ==
    /\ convPc = "loop"
    /\ retry_count < max_retries
    /\ attempts < MaxConvInputs
    /\ LET i == attempts + 1
           a == convIn.runs[i]
       IN /\ attempts' = i
          /\ result' = IF a.exc = "none" THEN Bound(i) ELSE result
          /\ IF a.exc = "none" /\ Accepted(a)
             THEN /\ convPc' = "done"
                  /\ convRet' = ConvRet("return", "-", i, "dxf_path")
                  /\ retry_count' = retry_count
             ELSE /\ convPc' = "loop"
                  /\ convRet' = convRet
                  /\ retry_count' = retry_count + 1
    /\ UNCHANGED convIn

\* Line 324: the loop ended without a return.  The message reads the local
\* `result`, which no statement has bound when subprocess.run raised in
\* every iteration.
ConvExhausted ==
    /\ convPc = "loop"
    /\ ~(retry_count < max_retries)
    /\ convPc' = "done"
    /\ convRet' = IF result.bound
                  THEN ConvRet("raise", "CADConversionError", result.from, "converter_output")
                  ELSE ConvRet("raise", "UnboundLocalError", 0, "-")
    /\ UNCHANGED <<convIn, retry_count, attempts, result>>

InitConv ==
    /\ file_process_cache = [h \in Hashes |-> NoEntry]
    /\ now = 0
    /\ call = [t \in Calls |-> IdleCall]
    /\ convIn \in ConvInputs
    /\ convPc = "start"
    /\ retry_count = 0
    /\ attempts = 0
    /\ result = Unbound
    /\ convRet = ConvNoRet
    /\ settings = <<>>
    /\ backend = <<>>
    /\ available_models = <<>>
    /\ svcPc = "off"
    /\ aiCall = <<>>
    /\ ocrCall = <<>>
    /\ job = <<>>
    /\ polls = <<>>
    /\ request = <<>>
    /\ ocrSvc = <<>>
    /\ temp_files = <<>>
    /\ dxfRun = <<>>

NextConv ==
    \/ ConvPrecheck /\ UNCHANGED <<cacheVars, svcVars, jobVars, extVars>>
    \/ ConvAttempt /\ UNCHANGED <<cacheVars, svcVars, jobVars, extVars>>
    \/ ConvExhausted /\ UNCHANGED <<cacheVars, svcVars, jobVars, extVars>>

\* One call of convert_dwg_to_dxf_from_path against every converter behaviour.
SpecConv == InitConv /\ [][NextConv]_vars

\* ---------------------------------------------------------------- failover
\* AIService.model_configs in the order of the dict (ai_service.py line 24),
\* and the backends of both services.
model_configs == <<"ernie", "qianwen">>
Backends == {"ernie", "qianwen", "baidu", "tesseract"}
\* The values of .env: TRUE stands for a non-empty string.  OCR_API_KEY stands
\* for the three credentials of the Baidu OCR client.
Settings ==
    [ERNIE_API_KEY : BOOLEAN, ERNIE_API_URL : BOOLEAN, DASHSCOPE_API_KEY : BOOLEAN,
     OCR_API_KEY : BOOLEAN]
\* What the remote service or the local engine does with one request.
Behaviours == [Backends -> {"success", "failure"}]
\* The model name passed to call_ai; "None" stands for None.
ModelNames == {"None", "ernie", "qianwen"}
Strategies == {"hybrid", "baidu", "tesseract", "unknown"}

\* The credentials and endpoint a backend needs are present.  The endpoint of
\* qianwen is a literal of model_configs; the Tesseract settings are class
\* constants of config.py.
HasConfig(s, b) ==
    IF b = "ernie" THEN s.ERNIE_API_KEY /\ s.ERNIE_API_URL
    ELSE IF b = "qianwen" THEN s.DASHSCOPE_API_KEY
    ELSE IF b = "baidu" THEN s.OCR_API_KEY
    ELSE TRUE

\* AIService.__init__, lines 42-45: the models with an api_key and an api_url.
AvailableModels(s) == SelectSeq(model_configs, LAMBDA m : HasConfig(s, m))

\* A piece of text a message is formatted from.
Piece(kind, of) == [kind |-> kind, of |-> of]
Reply(b) == Piece("reply", b)
ErrorOf(b) == Piece("error", b)
Elems(seq) == {seq[i] : i \in 1..Len(seq)}

AIResult(status, content, model_used, called) ==
    [status |-> status, content |-> content, model_used |-> model_used, called |-> called]

\* call_ai, lines 144-150: the answer of a model ends the loop.
EndsLoopNever(res) == FALSE
EndsLoop(res) == res = "success"

\* call_ai, lines 100-167: the loop over target_models from position i on,
\* and the failure returned when it ends.
RECURSIVE TryModels(_, _, _)
TryModels(target_models, b, i) ==
    IF i > Len(target_models)
    THEN AIResult("failure",
                  {Piece("all_failed", "-")} \cup {Piece("name", m) : m \in Elems(target_models)},
                  "None", target_models)
    ELSE IF EndsLoop(b[target_models[i]])
    THEN AIResult(b[target_models[i]], {Reply(target_models[i])}, target_models[i],
                  SubSeq(target_models, 1, i))
    ELSE TryModels(target_models, b, i + 1)

\* call_ai, lines 82-98: the models to try, or the failure for a named model
\* that is not available.
call_ai(available, model_name, b) ==
    IF model_name # "None"
    THEN IF model_name \notin Elems(available)
         THEN AIResult("failure", {Piece("unavailable", model_name)}, "None", <<>>)
         ELSE TryModels(<<model_name>>, b, 1)
    ELSE TryModels(available, b, 1)

OcrResult(status, engine, content, called) ==
    [status |-> status, engine |-> engine, content |-> content, called |-> called]
\* _baidu_ocr and _tesseract_ocr, lines 90-134: the engine is invoked and its
\* text or its error is returned.
EngineOcr(e, b) ==
    IF b[e] = "success" THEN OcrResult("success", e, {Reply(e)}, <<e>>)
    ELSE OcrResult("failed", e, {ErrorOf(e)}, <<e>>)

\* recognize, lines 80-88.
Hybrid(baidu_res, b) ==
    IF baidu_res.status = "success" THEN baidu_res
    ELSE [EngineOcr("tesseract", b) EXCEPT !.called = baidu_res.called \o @]
recognize(strategy, b) ==
    IF strategy = "baidu" THEN EngineOcr("baidu", b)
    ELSE IF strategy = "tesseract" THEN EngineOcr("tesseract", b)
    ELSE IF strategy = "hybrid" THEN Hybrid(EngineOcr("baidu", b), b)
    ELSE OcrResult("ValueError", "-", {}, <<>>)

NoAICall == [model_name |-> "-"] @@ AIResult("-", {}, "-", <<>>)
NoOcrCall == [strategy |-> "-"] @@ OcrResult("-", "-", {}, <<>>)

\* AIService.__init__, lines 41-50.
AIServiceInit ==
    /\ svcPc = "new"
    /\ available_models' = AvailableModels(settings)
    /\ svcPc' = IF AvailableModels(settings) = <<>> THEN "ValueError" ELSE "ready"
    /\ UNCHANGED <<settings, backend, aiCall, ocrCall>>

CallAI(model_name) ==
    /\ svcPc = "ready"
    /\ aiCall.status = "-"
    /\ aiCall' = [model_name |-> model_name] @@ call_ai(available_models, model_name, backend)
    /\ UNCHANGED <<settings, backend, available_models, svcPc, ocrCall>>

Recognize(strategy) ==
    /\ ocrCall.status = "-"
    /\ ocrCall' = [strategy |-> strategy] @@ recognize(strategy, backend)
    /\ UNCHANGED <<settings, backend, available_models, svcPc, aiCall>>

InitFailover ==
    /\ file_process_cache = [h \in Hashes |-> NoEntry]
    /\ now = 0
    /\ call = [t \in Calls |-> IdleCall]
    /\ convIn = <<>>
    /\ convPc = "off"
    /\ retry_count = 0
    /\ attempts = 0
    /\ result = <<>>
    /\ convRet = <<>>
    /\ settings \in Settings
    /\ backend \in {b \in Behaviours : \A x \in Backends : ~HasConfig(settings, x) => b[x] = "failure"}
    /\ available_models = <<>>
    /\ svcPc = "new"
    /\ aiCall = NoAICall
    /\ ocrCall = NoOcrCall
    /\ job = <<>>
    /\ polls = <<>>
    /\ request = <<>>
    /\ ocrSvc = <<>>
    /\ temp_files = <<>>
    /\ dxfRun = <<>>

NextFailover ==
    \/ AIServiceInit /\ UNCHANGED <<cacheVars, convVars, jobVars, extVars>>
    \/ \E m \in ModelNames : CallAI(m) /\ UNCHANGED <<cacheVars, convVars, jobVars, extVars>>
    \/ \E s \in Strategies : Recognize(s) /\ UNCHANGED <<cacheVars, convVars, jobVars, extVars>>

\* One call of call_ai and one of recognize against every configuration and
\* every behaviour of the backends.
SpecFailover == InitFailover /\ [][NextFailover]_vars

\* -------------------------------------------------------------- task bodies
\* The Celery tasks of cad_tasks.py.  Their stages perform_ocr, ai_review and
\* generate_report (common_tasks.py) build a fixed success dict, so the only
\* stage of a task that fails is the conversion of process_dwg_file.
TaskFns == {"process_dwg_file", "process_dxf_file", "process_pdf_file", "process_image_file"}
TaskOutcomes(f) == IF f = "process_dwg_file" THEN {"convert_exc", "ok"} ELSE {"ok"}
TaskRunGoesOn(f, o, c) ==
    Run(<<"convert_dwg_to_dxf_from_bytes", "perform_ocr", "ai_review", "generate_report">>,
        IF o = "convert_exc" THEN <<"exception", "success", "success", "success">>
        ELSE EndsWith(4, "success"),
        "none", NoResult, Return(Dict("success", c, "ocr+ai_review+report")))
TaskRun(f, o, c) ==
    LET convert == IF f = "process_dwg_file" THEN <<"convert_dwg_to_dxf_from_bytes">> ELSE <<>>
    IN IF o = "convert_exc"
       THEN Run(convert, <<"exception">>, "none", NoResult, Return(Dict("failed", c, "exception")))
       ELSE Run(convert \o <<"perform_ocr", "ai_review", "generate_report">>,
                EndsWith(Len(convert) + 3, "success"), "none", NoResult,
                Return(Dict("success", c, "ocr+ai_review+report")))

RunTask(t) ==
    /\ call[t].pc = "run" /\ call[t].fn \in TaskFns
    /\ \E o \in TaskOutcomes(call[t].fn) : Finish(t, TaskRun(call[t].fn, o, call[t].content))

PipelineFns == {"process_dxf_service", "process_image_service", "process_pdf_service"} \cup TaskFns

NextPipeline ==
    \/ \E t \in Calls, f \in PipelineFns, c \in Contents :
           InvokeAlone(t, f, c) /\ UNCHANGED <<convVars, svcVars, jobVars, extVars>>
    \/ \E t \in Calls : CheckCache(t) /\ UNCHANGED <<convVars, svcVars, jobVars, extVars>>
    \/ \E t \in Calls : MarkProcessing(t) /\ UNCHANGED <<convVars, svcVars, jobVars, extVars>>
    \/ \E t \in Calls : RunDxf(t) /\ UNCHANGED <<convVars, svcVars, jobVars, extVars>>
    \/ \E t \in Calls : RunImage(t) /\ UNCHANGED <<convVars, svcVars, jobVars, extVars>>
    \/ \E t \in Calls : RunPdf(t) /\ UNCHANGED <<convVars, svcVars, jobVars, extVars>>
    \/ \E t \in Calls : RunTask(t) /\ UNCHANGED <<convVars, svcVars, jobVars, extVars>>

\* The pipelines, services and task bodies, run one after another.
SpecPipeline == Init /\ [][NextPipeline]_vars

\* -------------------------------------------------------------------- jobs
\* A job is one task id: the message review_analyze (review_router.py lines
\* 114-119) or upload_and_process_file (cad_router.py line 32) puts on the
\* broker, and the state and result the worker stores for it.  A task id the
\* result backend holds nothing for reads as PENDING.
JobTasks == {"async_ai_review", "async_render_cad_to_image"} \cup TaskFns
ReviewValue(of, detail) == [kind |-> "dict", status |-> "-", of |-> of, detail |-> detail]
ExceptionValue(detail) == [kind |-> "exception", status |-> "-", of |-> "-", detail |-> detail]
NewJob(task, model_name, generate_pdf) ==
    [task |-> task, model_name |-> model_name, generate_pdf |-> generate_pdf,
     queued |-> TRUE, state |-> "PENDING", result |-> NoResult, retries |-> 0,
     stages |-> <<>>, results |-> <<>>, review |-> "-"]

\* A task id no submission returned: no message, nothing stored.
UnknownJob == [NewJob("unknown", "-", FALSE) EXCEPT !.queued = FALSE]

\* async_ai_review, lines 48-54: the handler of every exception of the body.
Retries(retries) == retries < task_max_retries

\* One execution of async_ai_review by a worker (lines 16-54); pdf is what
\* generate_review_pdf does when it is called.
RunReview(pdf) ==
    /\ job.task = "async_ai_review" /\ job.queued
    /\ LET ai_response == call_ai(available_models, job.model_name, backend)
           reviewed == ai_response.status # "failure"
           raised == ~reviewed \/ (job.generate_pdf /\ pdf = "exception")
           retry == raised /\ Retries(job.retries)
       IN job' = [job EXCEPT
               !.stages = @ \o (IF reviewed /\ job.generate_pdf
                                THEN <<"call_ai", "generate_review_pdf">> ELSE <<"call_ai">>),
               !.results = @ \o (IF ~reviewed THEN <<"failed">>
                                 ELSE IF ~job.generate_pdf THEN <<"success">>
                                 ELSE <<"success", IF pdf = "ok" THEN "success" ELSE "exception">>),
               !.review = ai_response.status,
               !.queued = retry,
               !.retries = IF retry THEN @ + 1 ELSE @,
               !.state = IF ~raised THEN "SUCCESS" ELSE IF retry THEN "RETRY" ELSE "FAILURE",
               !.result = IF ~raised
                          THEN ReviewValue(ai_response.model_used, "content+model_used+pdf_path")
                          ELSE IF retry THEN ExceptionValue("retry")
                          ELSE ExceptionValue("retries exhausted")]
    /\ UNCHANGED polls

\* One execution of a process_*_file task by a worker: the dict the body
\* returns, failed ones included, is stored as the result of a SUCCESS.
RunPipelineJob ==
    /\ job.task \in TaskFns /\ job.queued
    /\ \E o \in TaskOutcomes(job.task) :
           LET r == TaskRun(job.task, o, "c1")
           IN job' = [job EXCEPT !.stages = r.stages, !.results = r.results, !.queued = FALSE,
                                 !.state = "SUCCESS", !.result = r.ret.value]
    /\ UNCHANGED polls

\* One execution of async_render_cad_to_image, the task ocr_recognize submits
\* for CAD files (ocr_router.py lines 66-70): it ends in SUCCESS with the
\* rendered bytes get_ocr_task_result reads as its result, or in FAILURE.
RunRenderJob ==
    /\ job.task = "async_render_cad_to_image" /\ job.queued
    /\ \E o \in {"ok", "exception"} :
           job' = [job EXCEPT !.stages = <<"render_cad_to_image">>,
                              !.results = <<IF o = "ok" THEN "success" ELSE "exception">>,
                              !.queued = FALSE,
                              !.state = IF o = "ok" THEN "SUCCESS" ELSE "FAILURE",
                              !.result = IF o = "ok" THEN PngBytes("c1")
                                         ELSE ExceptionValue("CADRenderError")]
    /\ UNCHANGED polls

\* The result backend drops the stored state of a finished job when its
\* retention time has passed (celery_config.py sets none of its own).
ResultExpires ==
    /\ job.state \in {"SUCCESS", "FAILURE"}
    /\ job' = [job EXCEPT !.state = "PENDING", !.result = NoResult]
    /\ UNCHANGED polls

\* review_router.py, lines 138-150.
ReviewStatus(state) ==
    IF state = "PENDING" THEN "pending"
    ELSE IF state = "SUCCESS" THEN "success"
    ELSE IF state = "FAILURE" THEN "failure"
    ELSE "running"
get_review_result ==
    /\ job.task \in {"async_ai_review", "unknown"}
    /\ Len(polls) < MaxPolls
    /\ polls' = Append(polls, ReviewStatus(job.state))
    /\ UNCHANGED job

\* cad_router.py, lines 49-67: task.ready(), then task.successful().
TaskStatus(state) ==
    IF state \in {"SUCCESS", "FAILURE"}
    THEN IF state = "SUCCESS" THEN "completed" ELSE "failed"
    ELSE "processing"
get_task_status ==
    /\ job.task \in TaskFns \cup {"unknown"}
    /\ Len(polls) < MaxPolls
    /\ polls' = Append(polls, TaskStatus(job.state))
    /\ UNCHANGED job

\* ocr_router.py, lines 21-29; no branch answers the other states.
OcrTaskStatus(state) ==
    IF state = "PENDING" THEN "processing"
    ELSE IF state = "SUCCESS" THEN "success"
    ELSE IF state = "FAILURE" THEN "failed"
    ELSE "None"
\* ocr_router.py, lines 15-31: on SUCCESS the handler runs perform_ocr_service
\* on the stored result (line 26) and answers success whatever it returned.
get_ocr_task_resultJob(ocr) ==
    IF job.state = "SUCCESS"
    THEN [job EXCEPT !.stages = Append(@, "perform_ocr_service"), !.results = Append(@, ocr)]
    ELSE job
get_ocr_task_result ==
    /\ job.task \in {"async_render_cad_to_image", "unknown"}
    /\ Len(polls) < MaxPolls
    /\ polls' = Append(polls, OcrTaskStatus(job.state))
    /\ \E ocr \in {"success", "failed"} : job' = get_ocr_task_resultJob(ocr)

InitJob ==
    /\ file_process_cache = [h \in Hashes |-> NoEntry]
    /\ now = 0
    /\ call = [t \in Calls |-> IdleCall]
    /\ convIn = <<>>
    /\ convPc = "off"
    /\ retry_count = 0
    /\ attempts = 0
    /\ result = <<>>
    /\ convRet = <<>>
    /\ settings \in {s \in Settings : s.OCR_API_KEY /\ AvailableModels(s) # <<>>}
    /\ backend \in {b \in Behaviours :
                       /\ b["baidu"] = "success" /\ b["tesseract"] = "success"
                       /\ \A x \in Backends : ~HasConfig(settings, x) => b[x] = "failure"}
    /\ available_models = AvailableModels(settings)
    /\ svcPc = "ready"
    /\ aiCall = NoAICall
    /\ ocrCall = NoOcrCall
    /\ job \in {NewJob("async_ai_review", m, g) : m \in {"ernie", "qianwen"}, g \in BOOLEAN}
                \cup {NewJob(f, "-", FALSE) : f \in TaskFns \cup {"async_render_cad_to_image"}}
                \cup {UnknownJob}
    /\ polls = <<>>
    /\ request = <<>>
    /\ ocrSvc = <<>>
    /\ temp_files = <<>>
    /\ dxfRun = <<>>

NextJob ==
    \/ \E pdf \in {"ok", "exception"} : RunReview(pdf) /\ UNCHANGED <<cacheVars, convVars, svcVars, extVars>>
    \/ RunPipelineJob /\ UNCHANGED <<cacheVars, convVars, svcVars, extVars>>
    \/ RunRenderJob /\ UNCHANGED <<cacheVars, convVars, svcVars, extVars>>
    \/ ResultExpires /\ UNCHANGED <<cacheVars, convVars, svcVars, extVars>>
    \/ get_review_result /\ UNCHANGED <<cacheVars, convVars, svcVars, extVars>>
    \/ get_task_status /\ UNCHANGED <<cacheVars, convVars, svcVars, extVars>>
    \/ get_ocr_task_result /\ UNCHANGED <<cacheVars, convVars, svcVars, extVars>>

\* One job, its executions by a worker and the polls of its status.
SpecJob == InitJob /\ [][NextJob]_vars
\* A worker that is running executes the message in its queue: a queued
\* execution of async_ai_review is not postponed forever.
SpecJobFair ==
    SpecJob /\ WF_vars(\E pdf \in {"ok", "exception"} :
                           RunReview(pdf) /\ UNCHANGED <<cacheVars, convVars, svcVars, extVars>>)

\* ============================================================= submissions
\* One HTTP submission to POST /upload_and_process (cad_router.py),
\* POST /analyze (review_router.py) or POST /recognize (ocr_router.py).  A
\* handler runs from the request to its response in one step; the task it
\* dispatched is then executed by a worker.
Exts == {"dwg", "dxf", "pdf", "png", "xyz"}
\* cad_router.py, lines 7-14 (.jpg and .jpeg dispatch as .png does).
SUPPORTED_FILE_TYPES ==
    [dwg |-> "process_dwg_file", dxf |-> "process_dxf_file",
     pdf |-> "process_pdf_file", png |-> "process_image_file"]
\* review_router.py, line 37.
supported_types == {"dwg", "dxf", "pdf"}

NewRequest(endpoint, ext, model_name, generate_pdf) ==
    [endpoint |-> endpoint, ext |-> ext, model_name |-> model_name, generate_pdf |-> generate_pdf,
     pc |-> "received", code |-> 0, task_id |-> "none", stages |-> <<>>, results |-> <<>>]
\* What a handler did: the HTTP status of its response, the task it dispatched
\* ("none": no delay() call succeeded), the stages it ran inside the request
\* and how each ended, and the cache it leaves.
Answer(code, task, stages, results, cache) ==
    [code |-> code, task |-> task, stages |-> stages, results |-> results, cache |-> cache]

\* upload_and_process_file, lines 17-41.  The HTTPException(400) of line 24 is
\* raised inside the try block and caught by `except Exception` at line 38,
\* which raises HTTPException(500).
upload_and_process_fileDispatchFirst(ext, delay, cache) ==
    IF delay = "error" THEN Answer(500, "none", <<>>, <<>>, cache)
    ELSE IF ext \notin DOMAIN SUPPORTED_FILE_TYPES
    THEN Answer(500, "process_image_file", <<>>, <<>>, cache)
    ELSE Answer(200, SUPPORTED_FILE_TYPES[ext], <<>>, <<>>, cache)
upload_and_process_file(ext, delay, cache) ==
    IF ext \notin DOMAIN SUPPORTED_FILE_TYPES THEN Answer(500, "none", <<>>, <<>>, cache)
    ELSE IF delay = "error" THEN Answer(500, "none", <<>>, <<>>, cache)
    ELSE Answer(200, SUPPORTED_FILE_TYPES[ext], <<>>, <<>>, cache)

\* One whole call of render_cad_to_image (cad_service.py, lines 395-448) on
\* cache `cache` at time t: the cache it leaves and what it ran and returned.
render_cad_to_image(cache, c, t, o) ==
    LET h == _get_file_hash(c)
        r == _check_cache(cache, h, t)
        b == CacheBranch(r[2])
        run == RenderRun(o, c)
    IN IF b = "return"
       THEN [cache |-> r[1], run |-> Run(<<>>, <<>>, "none", NoResult, Return(r[2].result))]
       ELSE IF b = "raise"
       THEN [cache |-> r[1],
             run |-> Run(<<>>, <<>>, "none", NoResult, Raise("CADRenderError:processing"))]
       ELSE [cache |-> _update_cache(_update_cache(r[1], h, "processing", NoResult, t),
                                     h, run.write, run.stored, t),
             run |-> run]

\* How the calls review_analyze makes can end.
ReviewOutcomes ==
    [render : RenderOutcomes, pdf : {"no_dependency", "exception", "ok"},
     ocr : {"failed", "empty", "success"}, delay : {"error", "ok"}]
\* review_analyze, lines 35-131: the extension test, the rendering of a CAD
\* file or the conversion of a PDF's first page, the recognition, and then
\* async_ai_review.delay.
review_analyze(ext, o, cache, t) ==
    IF ext \notin supported_types THEN Answer(400, "none", <<>>, <<>>, cache)
    ELSE LET rendered == render_cad_to_image(cache, "c1", t, o.render)
             cad == ext \in {"dwg", "dxf"}
             after == IF cad THEN rendered.cache ELSE cache
             stages1 == IF cad THEN rendered.run.stages
                        ELSE IF o.pdf = "no_dependency" THEN <<>> ELSE <<"convert_from_bytes">>
             results1 == IF cad THEN rendered.run.results
                         ELSE IF o.pdf = "no_dependency" THEN <<>>
                         ELSE IF o.pdf = "ok" THEN <<"success">> ELSE <<"exception">>
             stages2 == Append(stages1, "process_file")
             results2 == Append(results1, IF o.ocr = "failed" THEN "failed" ELSE "success")
         IN IF cad /\ rendered.run.ret.kind = "raise" THEN Answer(400, "none", stages1, results1, after)
            ELSE IF ~cad /\ o.pdf = "no_dependency" THEN Answer(500, "none", stages1, results1, after)
            ELSE IF ~cad /\ o.pdf = "exception" THEN Answer(400, "none", stages1, results1, after)
            ELSE IF o.ocr # "success" THEN Answer(400, "none", stages2, results2, after)
            ELSE IF o.delay = "error" THEN Answer(500, "none", stages2, results2, after)
            ELSE Answer(200, "async_ai_review", stages2, results2, after)

\* ocr_recognize, lines 34-82: a PDF and an image are recognized inside the
\* request, a CAD file is handed to async_render_cad_to_image.
ocr_recognize(ext, sync, delay, cache) ==
    IF ext = "pdf"
    THEN Answer(IF sync = "exception" THEN 500 ELSE 200, "none",
                <<"extract_text_from_file">>, <<sync>>, cache)
    ELSE IF ext \in {"dwg", "dxf"}
    THEN IF delay = "error" THEN Answer(500, "none", <<>>, <<>>, cache)
         ELSE Answer(200, "async_render_cad_to_image", <<>>, <<>>, cache)
    ELSE Answer(200, "none", <<"perform_ocr_service">>,
                <<IF sync = "success" THEN "success" ELSE "failed">>, cache)

\* The response is sent; a dispatched task is a new job with a new id.
Respond(a) ==
    /\ request' = [request EXCEPT !.pc = "answered", !.code = a.code,
                                  !.task_id = IF a.task = "none" THEN "none" ELSE "t1",
                                  !.stages = a.stages, !.results = a.results]
    /\ job' = IF a.task = "none" THEN job
              ELSE IF a.task = "async_ai_review"
              THEN NewJob(a.task, request.model_name, request.generate_pdf)
              ELSE NewJob(a.task, "-", FALSE)
    /\ file_process_cache' = a.cache
    /\ UNCHANGED <<now, call, polls>>

UploadAndProcessFile ==
    /\ request.pc = "received" /\ request.endpoint = "upload_and_process_file"
    /\ \E delay \in {"error", "ok"} :
           Respond(upload_and_process_file(request.ext, delay, file_process_cache))
ReviewAnalyze ==
    /\ request.pc = "received" /\ request.endpoint = "review_analyze"
    /\ \E o \in ReviewOutcomes : Respond(review_analyze(request.ext, o, file_process_cache, now))
OcrRecognize ==
    /\ request.pc = "received" /\ request.endpoint = "ocr_recognize"
    /\ \E sync \in {"success", "failed", "exception"}, delay \in {"error", "ok"} :
           Respond(ocr_recognize(request.ext, sync, delay, file_process_cache))

InitSubmit ==
    /\ file_process_cache \in
           {[h \in Hashes |-> NoEntry],
            [h \in Hashes |-> IF h = _get_file_hash("c1") THEN Entry("success", PngBytes("c1"), 0)
                              ELSE NoEntry]}
    /\ now = 0
    /\ call = [t \in Calls |-> IdleCall]
    /\ convIn = <<>>
    /\ convPc = "off"
    /\ retry_count = 0
    /\ attempts = 0
    /\ result = <<>>
    /\ convRet = <<>>
    /\ settings \in {s \in Settings : s.OCR_API_KEY /\ AvailableModels(s) # <<>>}
    /\ backend \in {b \in Behaviours :
                       /\ b["baidu"] = "success" /\ b["tesseract"] = "success"
                       /\ \A x \in Backends : ~HasConfig(settings, x) => b[x] = "failure"}
    /\ available_models = AvailableModels(settings)
    /\ svcPc = "ready"
    /\ aiCall = NoAICall
    /\ ocrCall = NoOcrCall
    /\ job = UnknownJob
    /\ polls = <<>>
    /\ request \in {NewRequest("review_analyze", e, m, g) :
                        e \in Exts, m \in {"ernie", "qianwen"}, g \in BOOLEAN}
                   \cup {NewRequest(ep, e, "-", FALSE) :
                             ep \in {"upload_and_process_file", "ocr_recognize"}, e \in Exts}
    /\ ocrSvc = <<>>
    /\ temp_files = <<>>
    /\ dxfRun = <<>>

NextSubmit ==
    \/ UploadAndProcessFile /\ UNCHANGED <<convVars, svcVars, ocrSvc, temp_files, dxfRun>>
    \/ ReviewAnalyze /\ UNCHANGED <<convVars, svcVars, ocrSvc, temp_files, dxfRun>>
    \/ OcrRecognize /\ UNCHANGED <<convVars, svcVars, ocrSvc, temp_files, dxfRun>>
    \/ \E pdf \in {"ok", "exception"} : RunReview(pdf) /\ UNCHANGED <<cacheVars, convVars, svcVars, extVars>>
    \/ RunPipelineJob /\ UNCHANGED <<cacheVars, convVars, svcVars, extVars>>
    \/ RunRenderJob /\ UNCHANGED <<cacheVars, convVars, svcVars, extVars>>

\* One submission, its response and the execution of the task it dispatched.
SpecSubmit == InitSubmit /\ [][NextSubmit]_vars

\* ============================================================= recognition
\* perform_ocr_service and baidu_ocr (ocr_service.py).  A string is modelled by
\* what it stands for and by which of the two words perform_ocr_service
\* searches for (line 170: "shibai", failure, and "cuowu", error) occur in it.
Keywords == {"shibai", "cuowu"}
Str(of, marks) == [of |-> of, marks |-> marks]
EmptyStr == Str("", {})
\* The text on the drawing with content c; a drawing may carry either word.
Texts == {Str(c, m) : c \in Contents, m \in {{}, {"shibai"}, {"cuowu"}}}

\* How one call of baidu_ocr goes: no access token, no image bytes, the image
\* does not load, the request fails, the API answers an error, the answer
\* does not parse, the answer has no words, or it has the words of `text`.
EngineErrors ==
    {"no_token", "no_image", "load_error", "request_error", "api_error", "parse_error"}
EngineOutcomes ==
    {[kind |-> k, text |-> EmptyStr] : k \in EngineErrors \cup {"no_words"}}
    \cup {[kind |-> "words", text |-> t] : t \in Texts}
\* baidu_ocr, lines 87-155: the string returned.
baidu_ocr(e) ==
    IF e.kind = "words" THEN e.text
    ELSE IF e.kind = "no_words" THEN EmptyStr
    ELSE IF e.kind = "no_image" THEN Str("msg:no_image", {})
    ELSE IF e.kind = "api_error" THEN Str("msg:api_error", {"cuowu"})
    ELSE Str("msg:" \o e.kind, {"shibai"})

OcrDict(status, text, error) == [status |-> status, text |-> text, error |-> error]
\* perform_ocr_service, lines 158-187.
perform_ocr_service(e) ==
    LET ocr_result == baidu_ocr(e)
    IN IF ocr_result = EmptyStr THEN OcrDict("success", EmptyStr, EmptyStr)
       ELSE IF ocr_result.marks # {} THEN OcrDict("failed", EmptyStr, ocr_result)
       ELSE OcrDict("success", ocr_result, EmptyStr)

\* The callers of perform_ocr_service; the three services go on to
\* ai_review_service unless the status is not success, ocr_recognize returns
\* the dict.
OcrCallers ==
    {"process_image_service", "process_dxf_service", "process_pdf_service", "ocr_recognize"}
NotReviewed == [invoked |-> FALSE, text |-> EmptyStr]
ReviewedWith(text) == [invoked |-> TRUE, text |-> text]
NewOcrSvc(caller, e) ==
    [caller |-> caller, engine |-> e, pc |-> "start",
     ocr_result |-> OcrDict("-", EmptyStr, EmptyStr), review |-> NotReviewed]

PerformOcrService ==
    /\ ocrSvc.pc = "start"
    /\ ocrSvc' = [ocrSvc EXCEPT !.pc = "recognized", !.ocr_result = perform_ocr_service(ocrSvc.engine)]

\* cad_service.py, lines 125-129, 480-486 and 532-540 (a PDF of one page).
AfterOcr ==
    /\ ocrSvc.pc = "recognized"
    /\ ocrSvc' = [ocrSvc EXCEPT !.pc = "done",
                                !.review = IF ocrSvc.caller # "ocr_recognize"
                                              /\ ocrSvc.ocr_result.status = "success"
                                           THEN ReviewedWith(ocrSvc.ocr_result.text)
                                           ELSE NotReviewed]

InitOcr ==
    /\ file_process_cache = [h \in Hashes |-> NoEntry]
    /\ now = 0
    /\ call = [t \in Calls |-> IdleCall]
    /\ convIn = <<>>
    /\ convPc = "off"
    /\ retry_count = 0
    /\ attempts = 0
    /\ result = <<>>
    /\ convRet = <<>>
    /\ settings = <<>>
    /\ backend = <<>>
    /\ available_models = <<>>
    /\ svcPc = "off"
    /\ aiCall = <<>>
    /\ ocrCall = <<>>
    /\ job = <<>>
    /\ polls = <<>>
    /\ request = <<>>
    /\ ocrSvc \in {NewOcrSvc(f, e) : f \in OcrCallers, e \in EngineOutcomes}
    /\ temp_files = <<>>
    /\ dxfRun = <<>>

NextOcr ==
    \/ PerformOcrService /\ UNCHANGED <<cacheVars, convVars, svcVars, jobVars, request, temp_files, dxfRun>>
    \/ AfterOcr /\ UNCHANGED <<cacheVars, convVars, svcVars, jobVars, request, temp_files, dxfRun>>

\* One call of perform_ocr_service and what its caller does with the result.
SpecOcr == InitOcr /\ [][NextOcr]_vars

\* ====================================================== intermediate files
\* Two concurrent runs of process_dxf_service, or of render_cad_to_image, on
\* different contents, step by step through the files they write and read.
\* A file is modelled by the content it holds or renders; "absent": no file.
Runs == {1, 2}
FileNames == {"a.dxf", "b.dxf"}
FileTypes == {"dwg", "dxf"}

\* The name a run saves its upload under and the name it renders to:
\* process_dxf_service uses the upload's filename for both (lines 470-471),
\* render_cad_to_image builds a name from the file type and the first 8
\* digits of the MD5 (lines 412-414), distinct for distinct contents here.
TempName(fn, c, name) ==
    IF fn = "process_dxf_service" THEN name
    ELSE "temp_" \o name \o "_" \o _get_file_hash(c) \o "." \o name
\* save_temp_file, lines 57-60.
CadPath(fn, c, name) == "temp/cad/" \o _get_file_hash(c) \o "_" \o TempName(fn, c, name)
\* The second argument of cad_to_png, resolved under the project root
\* (cad_to_png, lines 376-379).
PngPath(fn, c, name) ==
    IF fn = "process_dxf_service" THEN "temp_" \o name \o ".png"
    ELSE TempName(fn, c, name) \o ".png"
Paths ==
    {CadPath(fn, c, n) : fn \in {"process_dxf_service"}, c \in Contents, n \in FileNames}
    \cup {CadPath(fn, c, n) : fn \in {"render_cad_to_image"}, c \in Contents, n \in FileTypes}
    \cup {PngPath(fn, c, n) : fn \in {"process_dxf_service"}, c \in Contents, n \in FileNames}
    \cup {PngPath(fn, c, n) : fn \in {"render_cad_to_image"}, c \in Contents, n \in FileTypes}

NewRun(fn, c, name) ==
    [fn |-> fn, content |-> c, name |-> name, pc |-> "save", png |-> "-", ret |-> NoRet]
CadPathOf(r) == CadPath(r.fn, r.content, r.name)
PngPathOf(r) == PngPath(r.fn, r.content, r.name)

\* Lines 397-413 and 452-470: the lookup misses (the entry of the run's own
\* content is absent), the entry is marked, and save_temp_file writes the
\* upload unless the file exists.
SaveTempFile(i) ==
    /\ dxfRun[i].pc = "save"
    /\ file_process_cache' = _update_cache(file_process_cache, _get_file_hash(dxfRun[i].content),
                                           "processing", NoResult, now)
    /\ temp_files' = IF temp_files[CadPathOf(dxfRun[i])] = "absent"
                     THEN [temp_files EXCEPT ![CadPathOf(dxfRun[i])] = dxfRun[i].content]
                     ELSE temp_files
    /\ dxfRun' = [dxfRun EXCEPT ![i].pc = "render"]

\* cad_to_png, lines 342-393: the saved file is read and its rendering is
\* written to the PNG path, replacing what was there.
CadToPng(i) ==
    /\ dxfRun[i].pc = "render"
    /\ temp_files' = [temp_files EXCEPT ![PngPathOf(dxfRun[i])] = temp_files[CadPathOf(dxfRun[i])]]
    /\ dxfRun' = [dxfRun EXCEPT ![i].pc = "read"]
    /\ UNCHANGED file_process_cache

\* process_dxf_service, lines 472-499: the PNG is read and the rest of the
\* body runs on it.  render_cad_to_image, lines 415-431: the PNG is read.
ReadPng(i) ==
    /\ dxfRun[i].pc = "read"
    /\ LET r == dxfRun[i]
           png == temp_files[PngPathOf(r)]
           h == _get_file_hash(r.content)
       IN IF r.fn = "process_dxf_service"
          THEN \E o \in {"png_missing", "ocr_failed", "ai_failed", "ok"} :
                  /\ (o = "png_missing") <=> (png = "absent")
                  /\ LET run == DxfRun(o, IF png = "absent" THEN r.content ELSE png)
                     IN /\ file_process_cache' =
                               _update_cache(file_process_cache, h, run.write, run.stored, now)
                        /\ dxfRun' = [dxfRun EXCEPT ![i].pc = "done", ![i].png = png,
                                                    ![i].ret = run.ret]
          ELSE IF png = "absent"
          THEN /\ file_process_cache' = _update_cache(file_process_cache, h, "failed", NoResult, now)
               /\ dxfRun' = [dxfRun EXCEPT ![i].pc = "done", ![i].png = png,
                                           ![i].ret = Raise("CADRenderError")]
          ELSE /\ dxfRun' = [dxfRun EXCEPT ![i].pc = "remove", ![i].png = png]
               /\ UNCHANGED file_process_cache
    /\ UNCHANGED temp_files

\* render_cad_to_image, lines 433-443: os.remove(png_path), the cache write
\* and the return.
RemovePng(i) ==
    /\ dxfRun[i].pc = "remove"
    /\ temp_files' = [temp_files EXCEPT ![PngPathOf(dxfRun[i])] = "absent"]
    /\ file_process_cache' = _update_cache(file_process_cache, _get_file_hash(dxfRun[i].content),
                                           "success", PngBytes(dxfRun[i].png), now)
    /\ dxfRun' = [dxfRun EXCEPT ![i].pc = "done", ![i].ret = Return(PngBytes(dxfRun[i].png))]

InitFiles ==
    /\ file_process_cache = [h \in Hashes |-> NoEntry]
    /\ now = 0
    /\ call = [t \in Calls |-> IdleCall]
    /\ convIn = <<>>
    /\ convPc = "off"
    /\ retry_count = 0
    /\ attempts = 0
    /\ result = <<>>
    /\ convRet = <<>>
    /\ settings = <<>>
    /\ backend = <<>>
    /\ available_models = <<>>
    /\ svcPc = "off"
    /\ aiCall = <<>>
    /\ ocrCall = <<>>
    /\ job = <<>>
    /\ polls = <<>>
    /\ request = <<>>
    /\ ocrSvc = <<>>
    /\ temp_files = [p \in Paths |-> "absent"]
    /\ dxfRun \in {[i \in Runs |-> NewRun("process_dxf_service",
                                          IF i = 1 THEN "c1" ELSE "c2", n[i])] :
                       n \in [Runs -> FileNames]}
                  \cup {[i \in Runs |-> NewRun("render_cad_to_image",
                                               IF i = 1 THEN "c1" ELSE "c2", n[i])] :
                            n \in [Runs -> FileTypes]}

NextFiles ==
    \/ \E i \in Runs : SaveTempFile(i) /\ UNCHANGED <<now, call, convVars, svcVars, jobVars, request, ocrSvc>>
    \/ \E i \in Runs : CadToPng(i) /\ UNCHANGED <<now, call, convVars, svcVars, jobVars, request, ocrSvc>>
    \/ \E i \in Runs : ReadPng(i) /\ UNCHANGED <<now, call, convVars, svcVars, jobVars, request, ocrSvc>>
    \/ \E i \in Runs : RemovePng(i) /\ UNCHANGED <<now, call, convVars, svcVars, jobVars, request, ocrSvc>>

\* Two concurrent runs on different contents and the files they share.
SpecFiles == InitFiles /\ [][NextFiles]_vars

\* ================================================================== claims
HashOf(t) == _get_file_hash(call[t].content)
\* Call t executes its cache lookup in this step.
Lookup(t) == call[t].pc = "check" /\ call'[t].pc # "check"
\* Call t's run ends in this step.
Exits(t) == call[t].pc = "run" /\ call'[t].pc = "done"
Fresh(e) == e # NoEntry /\ now - e.timestamp <= CACHE_EXPIRE_SECONDS
Invoked(t, stage) == \E i \in 1..Len(call[t].stages) : call[t].stages[i] = stage

\* C1: at most one pipeline run per fingerprint is in progress at any time:
\* no two calls of the same cached entry point on identical content are both
\* between their processing mark and their terminal cache write.
C1_AtMostOneRunInProgress ==
    \A t, u \in Calls :
        (t # u /\ call[t].pc = "run" /\ call[u].pc = "run" /\ call[t].fn = call[u].fn
            /\ call[t].fn \in CachedFns)
        => HashOf(t) # HashOf(u)

\* C2: a lookup that finds a non-expired success entry returns the cached
\* result at once, invokes no stage and leaves the cache unchanged.
C2_SuccessHitReturnsCached ==
    [][\A t \in Calls :
          (Lookup(t) /\ Fresh(file_process_cache[HashOf(t)])
              /\ file_process_cache[HashOf(t)].status = "success")
          => /\ call'[t].pc = "done"
             /\ call'[t].ret = Return(file_process_cache[HashOf(t)].result)
             /\ call'[t].stages = <<>>
             /\ file_process_cache' = file_process_cache]_vars
C2_Witness ==
    \E t \in Calls :
        /\ call[t].pc = "done" /\ call[t].stages = <<>> /\ call[t].ret.kind = "return"
        /\ file_process_cache[HashOf(t)].status = "success"
        /\ call[t].ret.value = file_process_cache[HashOf(t)].result

\* C3: two submissions of identical content within the cache TTL, through
\* the same entry point, produce the same result, and the recognition and
\* review stages are invoked for that content only once.
C3_IdenticalContentRunsOnce ==
    \A t, u \in Calls :
        (t # u /\ call[t].pc = "done" /\ call[u].pc = "done" /\ call[t].fn = call[u].fn
            /\ call[t].content = call[u].content /\ now <= CACHE_EXPIRE_SECONDS)
        => /\ ~(Invoked(t, "perform_ocr_service") /\ Invoked(u, "perform_ocr_service"))
           /\ ~(Invoked(t, "ai_review_service") /\ Invoked(u, "ai_review_service"))
           /\ (call[t].ret.kind = "return" /\ call[u].ret.kind = "return"
                  => call[t].ret = call[u].ret)

\* C4: failures are cached: a lookup that finds a non-expired failed entry
\* starts no run, and a processing mark never replaces a non-expired entry.
C4_FailuresCached ==
    [][\A t \in Calls :
          /\ (Lookup(t) /\ Fresh(file_process_cache[HashOf(t)])
                 /\ file_process_cache[HashOf(t)].status = "failed")
             => call'[t].pc = "done"
          /\ (call[t].pc = "mark" /\ call'[t].pc = "run")
             => ~Fresh(file_process_cache[HashOf(t)])]_vars

\* C5: a lookup that finds a non-expired processing entry fails with the
\* in-flight error, invokes no stage and leaves the cache exactly as it was.
C5_InFlightRaises ==
    [][\A t \in Calls :
          (Lookup(t) /\ Fresh(file_process_cache[HashOf(t)])
              /\ file_process_cache[HashOf(t)].status = "processing")
          => /\ call'[t].pc = "done"
             /\ call'[t].ret = Raise("CADRenderError:processing")
             /\ call'[t].stages = <<>>
             /\ file_process_cache' = file_process_cache]_vars
C5_Witness ==
    \E t \in Calls :
        /\ call[t].pc = "done" /\ call[t].stages = <<>>
        /\ call[t].ret = Raise("CADRenderError:processing")

\* C6: expiry is lazy and exact.  _check_cache(h) returns absent and removes
\* the entry of h exactly when that entry is older than CACHE_EXPIRE_SECONDS;
\* otherwise it returns the stored entry, timestamp included; entries of other
\* fingerprints are untouched; and an entry disappears only in a lookup of
\* its own key that finds it expired.
C6_LookupResult ==
    \A h \in Hashes :
        LET e == file_process_cache[h]
            r == _check_cache(file_process_cache, h, now)
        IN e # NoEntry =>
             /\ (r[2] = NoEntry /\ r[1][h] = NoEntry) <=> (now - e.timestamp > CACHE_EXPIRE_SECONDS)
             /\ (now - e.timestamp <= CACHE_EXPIRE_SECONDS) => (r[2] = e /\ r[1][h] = e)
             /\ \A g \in Hashes \ {h} : r[1][g] = file_process_cache[g]
C6_LookupStep ==
    \A t \in Calls :
        Lookup(t) =>
          LET e == file_process_cache[HashOf(t)]
          IN /\ (e # NoEntry /\ now - e.timestamp > CACHE_EXPIRE_SECONDS)
                    => (file_process_cache'[HashOf(t)] = NoEntry /\ call'[t].pc = "mark")
             /\ (e # NoEntry /\ now - e.timestamp <= CACHE_EXPIRE_SECONDS)
                    => file_process_cache'[HashOf(t)] = e
             /\ \A g \in Hashes \ {HashOf(t)} : file_process_cache'[g] = file_process_cache[g]
C6_OnlyOwnLookupRemoves ==
    \A h \in Hashes :
        (file_process_cache[h] # NoEntry /\ file_process_cache'[h] = NoEntry)
        => \E t \in Calls :
              /\ Lookup(t) /\ HashOf(t) = h
              /\ now - file_process_cache[h].timestamp > CACHE_EXPIRE_SECONDS
Successful(ret) ==
    ret.kind = "return" /\ (ret.value.kind = "bytes" \/ ret.value.status = "success")
C7_TerminalEntryOnExit ==
    [][\A t \in Calls :
          (Exits(t) /\ call[t].fn \in CachedFns)
          => LET e == file_process_cache'[HashOf(t)]
             IN /\ e.timestamp = now
                /\ IF Successful(call'[t].ret)
                   THEN e.status = "success" /\ e.result = call'[t].ret.value
                   ELSE e.status = "failed"]_vars
C7_Witness ==
    \E t \in Calls :
        /\ call[t].pc = "done" /\ call[t].ret = Raise("CADRenderError")
        /\ file_process_cache[HashOf(t)].status = "failed"

\* C8: a failed conversion is retried once: when the first converter attempt
\* fails and the second would succeed, the call returns the second attempt's
\* DXF; at most 2 attempts are made.
AttemptSucceeds(a) == a.exc = "none" /\ a.returncode = 0 /\ a.exists /\ a.valid
C8_RetriesOnce ==
    (convPc = "done" /\ convIn.dwgExists /\ convIn.converterExists)
    => /\ attempts <= 2
       /\ (~AttemptSucceeds(convIn.runs[1]) /\ AttemptSucceeds(convIn.runs[2]))
              => (convRet.kind = "return" /\ convRet.from = 2)

\* C9: when every attempt fails, whatever the kind of each failure, the call
\* fails with CADConversionError carrying the error of the last attempt,
\* after exactly the configured number of attempts.
C9_ExhaustionError ==
    (convPc = "done" /\ attempts >= 1 /\ convRet.kind # "return")
    => /\ convRet.exc = "CADConversionError"
       /\ convRet.from = attempts
       /\ attempts = max_retries

\* C10: a DXF path is returned only from an attempt in which the converter
\* exited with code 0, the output file exists and ezdxf.readfile parsed it;
\* every other attempt, a failed validation included, is counted as failed.
C10_ReturnsOnlyValidated ==
    /\ convRet.kind = "return"
          => (convRet.from = attempts /\ AttemptSucceeds(convIn.runs[convRet.from]))
    /\ \A i \in 1..attempts :
          ~AttemptSucceeds(convIn.runs[i])
              => (retry_count >= i /\ ~(convRet.kind = "return" /\ convRet.from = i))
C10_Witness ==
    /\ convPc = "done" /\ convRet.kind = "return"
    /\ convRet.from = 1 /\ AttemptSucceeds(convIn.runs[1])

\* seq is an initial part of order.
IsPrefix(seq, order) == Len(seq) <= Len(order) /\ seq = SubSeq(order, 1, Len(seq))
\* The backends invoked before the last one all failed.
OnlyLastMaySucceed(called) == \A i \in 1..(Len(called) - 1) : backend[called[i]] # "success"
LastOf(called) == called[Len(called)]

\* C11: failover tries the backends in priority order and stops at the first
\* success.  call_ai with no model named invokes the available models in the
\* order ernie, qianwen, and recognize with strategy hybrid invokes baidu then
\* tesseract; each backend is invoked at most once, none after one succeeded;
\* the call succeeds exactly when the last backend invoked succeeded, and the
\* result is that backend's reply and names it.
C11_AIFailover ==
    (aiCall.status # "-" /\ aiCall.model_name = "None") =>
        /\ IsPrefix(aiCall.called, available_models)
        /\ IsPrefix(available_models, model_configs) \/ available_models = <<"qianwen">>
        /\ OnlyLastMaySucceed(aiCall.called)
        /\ IF backend[LastOf(aiCall.called)] = "success"
           THEN /\ aiCall.status = "success"
                /\ aiCall.model_used = LastOf(aiCall.called)
                /\ aiCall.content = {Reply(LastOf(aiCall.called))}
           ELSE aiCall.status = "failure" /\ aiCall.called = available_models
C11_OcrFailover ==
    (ocrCall.status # "-" /\ ocrCall.strategy = "hybrid") =>
        /\ ocrCall.called # <<>>
        /\ IsPrefix(ocrCall.called, <<"baidu", "tesseract">>)
        /\ OnlyLastMaySucceed(ocrCall.called)
        /\ IF backend[LastOf(ocrCall.called)] = "success"
           THEN /\ ocrCall.status = "success"
                /\ ocrCall.engine = LastOf(ocrCall.called)
                /\ ocrCall.content = {Reply(LastOf(ocrCall.called))}
           ELSE ocrCall.status = "failed" /\ ocrCall.called = <<"baidu", "tesseract">>
C11_FailoverInOrder == C11_AIFailover /\ C11_OcrFailover
\* Both services fell over from a failed first backend to the second.
C11_Witness ==
    /\ aiCall.model_name = "None" /\ aiCall.called = <<"ernie", "qianwen">>
    /\ aiCall.status = "success" /\ aiCall.model_used = "qianwen"
    /\ ocrCall.strategy = "hybrid" /\ ocrCall.called = <<"baidu", "tesseract">>
    /\ ocrCall.status = "success" /\ ocrCall.engine = "tesseract"

\* C12: when every attempted backend fails, the failure returned by call_ai,
\* and by recognize with strategy hybrid, carries the underlying error of each
\* backend that was attempted.
C12_AllFailedCarriesErrors ==
    /\ (aiCall.status = "failure" /\ aiCall.called # <<>>) =>
           \A m \in Elems(aiCall.called) : ErrorOf(m) \in aiCall.content
    /\ (ocrCall.strategy = "hybrid" /\ ocrCall.status = "failed") =>
           \A e \in Elems(ocrCall.called) : ErrorOf(e) \in ocrCall.content

\* C13: a backend whose credentials or endpoint are absent is never invoked,
\* by call_ai or by recognize, and the available models are those the
\* configuration gives, from the construction of the service on.
C13_UnconfiguredNeverInvoked ==
    /\ \A m \in Elems(aiCall.called) : HasConfig(settings, m)
    /\ \A e \in Elems(ocrCall.called) : HasConfig(settings, e)
    /\ svcPc = "ready" => available_models = AvailableModels(settings)

\* The place of a stage in the order convert/render, recognize, review, report.
StageRank(stage) ==
    IF stage \in {"perform_ocr_service", "perform_ocr"} THEN 2
    ELSE IF stage \in {"ai_review_service", "ai_review"} THEN 3
    ELSE IF stage \in {"generate_report_service", "generate_report"} THEN 4
    ELSE 1
Done(t) == call[t].pc = "done" /\ call[t].stages # <<>>

\* C15: within one run of process_dxf_service, process_image_service or a
\* process_*_file task the stages are invoked in the order convert/render,
\* recognize, review, report, each of the last three at most once, and a stage
\* is invoked only when every stage before it returned success: the first
\* failing stage is the last stage of the run.
C15_StagesInOrderUntilFailure ==
    \A t \in Calls :
        (Done(t) /\ call[t].fn \in {"process_dxf_service", "process_image_service"} \cup TaskFns) =>
            /\ \A i, j \in 1..Len(call[t].stages) :
                   i < j => /\ StageRank(call[t].stages[i]) <= StageRank(call[t].stages[j])
                            /\ StageRank(call[t].stages[j]) > 1 =>
                                   StageRank(call[t].stages[i]) < StageRank(call[t].stages[j])
                            /\ call[t].results[i] = "success"
\* A run of process_dxf_service stopped at a failed recognition, and a run of
\* process_dwg_file stopped at a failed conversion.
C15_Witness ==
    /\ \E t \in Calls :
           /\ Done(t) /\ call[t].fn = "process_dxf_service"
           /\ call[t].stages = <<"save_temp_file", "cad_to_png", "perform_ocr_service">>
           /\ call[t].results = <<"success", "success", "failed">>
    /\ \E t \in Calls :
           /\ Done(t) /\ call[t].fn = "process_dwg_file"
           /\ call[t].results = <<"exception">>

\* C14: the review stage of a job submitted through /analyze fails only when
\* every available review model has failed: it does not fail while some
\* available model answers the text successfully.
C14_ReviewFailsOnlyWhenAllFail ==
    (job.task = "async_ai_review" /\ job.review = "failure") =>
        \A m \in Elems(available_models) : backend[m] # "success"

Count(seq, x) == Cardinality({i \in 1..Len(seq) : seq[i] = x})
\* C16: no stage is executed again for a job: over all the executions of a
\* job each of its stages, the review call of async_ai_review included, is
\* invoked at most once.
C16_NoStageRunTwice ==
    \A s \in Elems(job.stages) : Count(job.stages, s) <= 1

\* C17: stage errors are never swallowed: a run in which some stage invocation
\* failed or raised does not end with a successful result.
C17_StageErrorsPropagate ==
    \A t \in Calls :
        (Done(t) /\ \E i \in 1..Len(call[t].results) : call[t].results[i] # "success") =>
            ~Successful(call[t].ret)

PollRank(status) ==
    IF status \in {"pending", "processing"} THEN 0 ELSE IF status = "running" THEN 1 ELSE 2
\* C19: the states successive polls of a job report never go back: queued or
\* processing, then running, then one terminal state, which every later poll
\* repeats.
C19_PollsMonotonic ==
    \A i, j \in 1..Len(polls) :
        i < j => /\ PollRank(polls[i]) <= PollRank(polls[j])
                 /\ PollRank(polls[i]) = 2 => polls[j] = polls[i]

\* C20: a poll of a process_*_file job one of whose stages failed reports the
\* job as failed, never as completed.
C20_FailedJobPollsFailed ==
    [][(/\ job.task \in TaskFns
        /\ \E i \in 1..Len(job.results) : job.results[i] # "success"
        /\ polls' # polls) => polls'[Len(polls')] = "failed"]_vars

\* C21: a poll of an identifier no submission returned is answered with a
\* not-found error by every poll handler, never as a queued or processing job.
C21_UnknownIdNotFound ==
    job.task = "unknown" => \A i \in 1..Len(polls) : polls[i] = "not_found"

\* C22: polling is read-only: a poll invokes no stage and leaves the job's
\* stored state and result as they were.
C22_PollsReadOnly ==
    [][polls' # polls => job' = job]_vars


\* C23: submission is non-blocking: a response that carries a job identifier
\* is sent before any stage of the job has run; no stage runs inside the
\* submitting request.
C23_SubmissionRunsNoStage ==
    (request.pc = "answered" /\ request.task_id # "none") => request.stages = <<>>

\* The extension is one the endpoint does not accept.
Unrecognized(endpoint, ext) ==
    \/ endpoint = "upload_and_process_file" /\ ext \notin DOMAIN SUPPORTED_FILE_TYPES
    \/ endpoint = "review_analyze" /\ ext \notin supported_types

\* C24: a submission with an unrecognized extension is answered with a 4xx
\* error by upload_and_process_file and review_analyze, never with a 5xx error
\* or a job identifier.
C24_UnrecognizedExtensionIs4xx ==
    (request.pc = "answered" /\ Unrecognized(request.endpoint, request.ext))
        => (request.code \in 400..499 /\ request.task_id = "none")

\* C25: a submission rejected for an unrecognized extension has no effect: no
\* task is scheduled, no job identifier is created, no stage is invoked and
\* the fingerprint cache is unchanged.
C25_RejectedSubmissionHasNoEffect ==
    [][(request.pc = "received" /\ request'.pc = "answered"
            /\ Unrecognized(request.endpoint, request.ext))
        => (job' = job /\ file_process_cache' = file_process_cache
            /\ request'.task_id = "none" /\ request'.stages = <<>>)]_vars
C25_Witness ==
    /\ request.pc = "answered" /\ request.endpoint = "upload_and_process_file"
    /\ request.ext = "xyz" /\ request.code >= 400
    /\ job = UnknownJob


\* C26: when the engine finds no text the recognition stage fails and the
\* pipeline does not go on: the review is never invoked with empty text.
C26_NoReviewOfEmptyText ==
    /\ (ocrSvc.pc # "start" /\ ocrSvc.engine.kind = "no_words") => ocrSvc.ocr_result.status = "failed"
    /\ ocrSvc.review.invoked => ocrSvc.review.text # EmptyStr

\* C30: perform_ocr_service reports failed exactly when the engine call
\* failed: text the engine recognized comes back with status success and
\* unchanged, whatever words it contains, and every engine error is failed.
C30_FailedIffEngineFailed ==
    ocrSvc.pc # "start" =>
        /\ ocrSvc.engine.kind = "words" =>
               (ocrSvc.ocr_result.status = "success" /\ ocrSvc.ocr_result.text = ocrSvc.engine.text)
        /\ ocrSvc.engine.kind \in EngineErrors => ocrSvc.ocr_result.status = "failed"


\* C28: a call of render_cad_to_image that returns returns PNG bytes and a
\* call of process_dxf_service that returns returns a dict: neither returns
\* from the cache a value the other stored.
C28_NoCrossFunctionCacheValue ==
    \A t \in Calls :
        (call[t].pc = "done" /\ call[t].ret.kind = "return") =>
            /\ call[t].fn = "render_cad_to_image" => call[t].ret.value.kind = "bytes"
            /\ call[t].fn = "process_dxf_service" => call[t].ret.value.kind = "dict"


\* C29: concurrent runs on different contents do not interfere through
\* intermediate files: the PNG a run reads is the rendering of its own
\* content, and no run finds its PNG missing.
C29_RunReadsItsOwnPng ==
    \A i \in Runs : dxfRun[i].pc \in {"remove", "done"} => dxfRun[i].png = dxfRun[i].content


\* C27: async_ai_review is retried at most 2 times, 3 executions in all, and
\* then ends in FAILURE.
C27_AtMostTwoRetries ==
    job.task = "async_ai_review" => job.retries <= 2
\* The other half of C27: a submitted review job reaches a terminal state.
C27_EventuallyTerminal ==
    job.task = "async_ai_review" => <>(job.state \in {"SUCCESS", "FAILURE"})

====
